---- MODULE Spec2Model ----
(***************************************************************************)
(* Model of app.py, the Streamlit spaced-repetition scheduler.             *)
(*                                                                         *)
(* State: the ledger kept in st.session_state.event_history, the events    *)
(* of the primary Google calendar, and the position of the Streamlit       *)
(* script (a rerun requested or not).  One action per script run or        *)
(* callback: toggle_completion, reset_progress, the reconciliation pass    *)
(* at the head of main(), the session delete button, the sidebar delete    *)
(* button and the "Create Events" button.                                  *)
(*                                                                         *)
(* A remote call either succeeds or raises googleapiclient HttpError.  A   *)
(* get, update or delete of an id that is not on the calendar always       *)
(* raises HttpError; a call on an existing id raises it when the           *)
(* environment chooses (5xx, rate limit), which the actions draw with \E.  *)
(***************************************************************************)
EXTENDS Integers, Sequences, FiniteSets, TLC

\* Bounds of the model.
MaxEvents == 4        \* remote event ids ever issued by the calendar
MaxIntervals == 2     \* entries of the interval table walked by the creation loop
MaxPrefix == 2        \* "Completed: " prefixes a remote summary may accumulate

\* app.py:275
intervals == <<1, 7, 16, 30, 90, 180, 365>>

\* app.py:276-284
interval_actions ==
    (1 :> "Review notes") @@ (7 :> "Revise thoroughly") @@ (16 :> "Solve problems") @@
    (30 :> "Revise again") @@ (90 :> "Test yourself") @@ (180 :> "Deep review") @@
    (365 :> "Final review")

\* app.py:249
subjects == <<"Physics", "Chemistry", "Combined Maths">>

\* The subjects picked in the form.
FormSubjects == {"Physics"}

\* The descriptions typed into the form (the empty one is rejected, app.py:296).
Descriptions == {"topic"}

\* The study dates picked in the form (days since an epoch).
Dates == {0}

\* str.lower() on the subjects the selectbox offers (app.py:19).
lower(subject) ==
    CASE subject = "Physics" -> "physics"
      [] subject = "Chemistry" -> "chemistry"
      [] subject = "Combined Maths" -> "combined maths"
      [] OTHER -> subject

\* app.py:18-27
get_color_id(subject) ==
    LET s == lower(subject) IN
    IF s \in {"physics", "p6"} THEN "7"
    ELSE IF s \in {"chemistry", "chem"} THEN "6"
    ELSE IF s \in {"combined maths", "c.m."} THEN "10"
    ELSE "1"

\* The prefix toggle_completion puts in front of a summary (app.py:113).
CompletedPrefix == "Completed: "

\* The colour of a completed event, Graphite (app.py:114).
DoneColor == "8"

Ids == 1..MaxEvents

\* event_history: st.session_state.event_history, the ledger.
\* calendar: the events of the primary calendar, by event id.
\* next_id: the id the calendar gives to the next inserted event.
\* rerun_pending: a script run has been requested and has not happened yet.
\* last: what the last step did (observation of the run).
\* series: the locals of the creation loop of main() while it computes the
\*   occurrences of one series (anchor, duration, occurrences so far).
\* circle: the locals of render_progress_circle (event, circle_parts).
VARIABLES event_history, calendar, next_id, rerun_pending, last, series, circle

vars == <<event_history, calendar, next_id, rerun_pending, last, series, circle>>

\* The locals of the two pure computations, which the runs of the app below
\* leave alone.
pure == <<series, circle>>
NoSeries == [anchor |-> 0, duration |-> 0, occurrences |-> <<>>]
NoCircle == [event |-> [sub_events |-> <<>>], circle_parts |-> <<>>]

\* The observation left by a step.
Obs(op, ok, captured, failed, removed, created) ==
    [op |-> op, ok |-> ok, captured |-> captured,
     failed |-> failed, removed |-> removed, created |-> created]

\* Elements of a sequence, and restriction of a function.
Range(s) == {s[i] : i \in DOMAIN s}
Restrict(f, S) == [x \in S |-> f[x]]

\* app.py:60-63
EmptyHistory == [created_events |-> <<>>, completed_events |-> <<>>, missed_events |-> <<>>]

\* service.events().get(...).execute(): the event, or HttpError (app.py:87, 109).
\* fail is the set of ids for which the calendar answers with an error this run.
get_raises(cal, fail, event_id) == event_id \notin DOMAIN cal \/ event_id \in fail

\* app.py:85-90
event_exists(cal, fail, event_id) ==
    IF get_raises(cal, fail, event_id) THEN FALSE ELSE TRUE

\* The sequence in reverse order.
Reverse(s) == [i \in DOMAIN s |-> s[Len(s) + 1 - i]]

\* A pass that puts each kept entry in front of the list, not behind it.
verify_events_prepend(cal, fail, history) ==
    LET Keep(event) == event_exists(cal, fail, event.id) IN
    [created_events |-> Reverse(SelectSeq(history.created_events, Keep)),
     completed_events |-> Reverse(SelectSeq(history.completed_events, Keep)),
     missed_events |-> Reverse(SelectSeq(history.missed_events, Keep))]

\* app.py:68-82
verify_events(cal, fail, history) ==
    LET Keep(event) == event_exists(cal, fail, event.id) IN
    [created_events |-> SelectSeq(history.created_events, Keep),
     completed_events |-> SelectSeq(history.completed_events, Keep),
     missed_events |-> SelectSeq(history.missed_events, Keep)]

\* A pass that filters the lists of the ledger it is given in place.
history_after_verify_in_place(cal, fail, history) == verify_events(cal, fail, history)

\* The ledger passed to verify_events, as the call leaves it (app.py:68-82):
\* the function appends to the lists of a new dict and assigns nothing in
\* history.
history_after_verify(cal, fail, history) == history

\* The sub-event dict with 'originalColorId' set (app.py:111).
with_original_color(sub_event, color) ==
    [k \in DOMAIN sub_event \cup {"originalColorId"} |->
        IF k = "originalColorId" THEN color ELSE sub_event[k]]

\* A lookup that never finds the key and always answers the default.
color_of_default(calendar_event) == "1"

\* calendar_event.get('colorId', '1') (app.py:111)
color_of(calendar_event) ==
    IF "colorId" \in DOMAIN calendar_event THEN calendar_event.colorId ELSE "1"

\* f"Completed: {summary}" (app.py:113); a summary is its sequence of
\* "Completed: " prefixes followed by the title.
add_prefix(summary) == <<CompletedPrefix>> \o summary

\* summary.replace("Completed: ", "") removes every occurrence (app.py:116).
remove_prefix(summary) ==
    LET NotPrefix(t) == t # CompletedPrefix IN SelectSeq(summary, NotPrefix)

\* A step that forgets the guard of app.py:110 and captures on every toggle.
captures_always(sub_event) == TRUE

\* 'originalColorId' not in sub_event (app.py:110)
captures(sub_event) == "originalColorId" \notin DOMAIN sub_event

\* A search that looks for the sub-event in every session, whatever its id.
toggle_hits_any_session(history, event_id, sub_event_id) ==
    {p \in UNION {{<<i, j>> : j \in DOMAIN history.created_events[i].sub_events} :
                    i \in DOMAIN history.created_events} :
        history.created_events[p[1]].sub_events[p[2]].id = sub_event_id}

\* The positions <<i, j>> of the sub-events the loops of toggle_completion
\* match (app.py:102-105).
toggle_hits(history, event_id, sub_event_id) ==
    {p \in UNION {{<<i, j>> : j \in DOMAIN history.created_events[i].sub_events} :
                    i \in DOMAIN history.created_events} :
        /\ history.created_events[p[1]].id = event_id
        /\ history.created_events[p[1]].sub_events[p[2]].id = sub_event_id}

\* app.py:100-123.  outcome says which remote call raises HttpError:
\* "ok" (none), "get_error" or "update_error"; a get of an id that is not on
\* the calendar always raises.  The result is the ledger, the calendar and
\* what happened.
toggle_completion(history, cal, event_id, sub_event_id, outcome) ==
    LET hits == toggle_hits(history, event_id, sub_event_id) IN
    IF hits = {}
    THEN [history |-> history, calendar |-> cal, found |-> FALSE,
          ok |-> TRUE, captured |-> FALSE]
    ELSE
      LET p == CHOOSE q \in hits : \A r \in hits :
                  q[1] < r[1] \/ (q[1] = r[1] /\ q[2] <= r[2])
          sub_event == history.created_events[p[1]].sub_events[p[2]]
          flipped == [sub_event EXCEPT !.completed = ~sub_event.completed]
          get_fails == get_raises(cal, IF outcome = "get_error" THEN {sub_event_id} ELSE {},
                                  sub_event_id)
          calendar_event == cal[sub_event_id]
          capture == ~get_fails /\ captures(flipped)
          sub2 == IF capture
                  THEN with_original_color(flipped, color_of(calendar_event))
                  ELSE flipped
          body == IF sub2.completed
                  THEN [calendar_event EXCEPT !.summary = add_prefix(calendar_event.summary),
                                              !.colorId = DoneColor]
                  ELSE [calendar_event EXCEPT !.summary = remove_prefix(calendar_event.summary),
                                              !.colorId = sub2.originalColorId]
          updated == ~get_fails /\ outcome # "update_error"
      IN [history |-> [history EXCEPT !.created_events[p[1]].sub_events[p[2]] = sub2],
          calendar |-> IF updated THEN [cal EXCEPT ![sub_event_id] = body] ELSE cal,
          found |-> TRUE, ok |-> updated, captured |-> capture]

\* app.py:92-98
reset_progress(history) ==
    [history EXCEPT !.created_events =
        [i \in DOMAIN history.created_events |->
            [history.created_events[i] EXCEPT !.sub_events =
                [j \in DOMAIN history.created_events[i].sub_events |->
                    [history.created_events[i].sub_events[j] EXCEPT !.completed = FALSE]]]]]

\* The entries of the interval table the creation loop walks (app.py:306).
loop_intervals == SubSeq(intervals, 1, IF MaxIntervals < Len(intervals)
                                       THEN MaxIntervals ELSE Len(intervals))

\* event_title (app.py:307-308)
event_title(subject, interval) == subject \o ": " \o interval_actions[interval]

\* event_body as the calendar stores it (app.py:317-329); the summary is kept
\* as the sequence of its prefixes and its title.
event_body(subject, description, interval) ==
    [summary |-> <<event_title(subject, interval)>>,
     description |-> description,
     colorId |-> get_color_id(subject)]

\* The creation loop (app.py:303-337): the inserts before the first failing
\* one (fail_at, Len + 1 when none fails) take the ids next, next + 1, ...
created_sub_events(subject, next, fail_at) ==
    [j \in 1..(fail_at - 1) |->
        [id |-> next + j - 1, name |-> event_title(subject, loop_intervals[j]),
         completed |-> FALSE]]

\* A session that takes the id of its first sub-event.
main_event_first(subject, description, date, sub_events) ==
    [id |-> sub_events[1].id,
     date |-> date,
     title |-> description,
     sub_events |-> sub_events]

\* main_event (app.py:340-345): created_event is the last event inserted.
main_event(subject, description, date, sub_events) ==
    [id |-> sub_events[Len(sub_events)].id,
     date |-> date,
     title |-> description,
     sub_events |-> sub_events]

\* A handler that records the session whenever an insert succeeded.
create_events_partial(history, subject, description, date, next, fail_at) ==
    LET sub_events == created_sub_events(subject, next, fail_at) IN
    IF Len(sub_events) >= 1
    THEN [history EXCEPT !.created_events =
             Append(@, main_event(subject, description, date, sub_events))]
    ELSE history

\* A handler that appends the session twice.
create_events_twice(history, subject, description, date, next, fail_at) ==
    LET sub_events == created_sub_events(subject, next, fail_at)
        success == fail_at = Len(loop_intervals) + 1
    IN IF success
       THEN [history EXCEPT !.created_events =
                Append(Append(@, main_event(subject, description, date, sub_events)),
                       main_event(subject, description, date, sub_events))]
       ELSE history

\* The ledger after the "Create Events" handler (app.py:339-347): the session
\* is appended only when every insert succeeded.
create_events(history, subject, description, date, next, fail_at) ==
    LET sub_events == created_sub_events(subject, next, fail_at)
        success == fail_at = Len(loop_intervals) + 1
    IN IF success
       THEN [history EXCEPT !.created_events =
                Append(@, main_event(subject, description, date, sub_events))]
       ELSE history

\* The deletes of the session delete handler (app.py:203-204): the position
\* of the first delete that raises, Len + 1 when all succeed.  A delete of an
\* id that is not on the calendar raises; fail_at is the one the remote fails.
first_failing_delete(cal, sub_events, fail_at) ==
    LET bad == {j \in DOMAIN sub_events : sub_events[j].id \notin DOMAIN cal \/ j = fail_at}
    IN IF bad = {} THEN Len(sub_events) + 1
       ELSE CHOOSE j \in bad : \A k \in bad : j <= k

\* A handler that removes the session whatever the deletes did.
delete_session_always(history, cal, event, fail_at) ==
    LET Other(e) == e.id # event.id IN
    [history EXCEPT !.created_events = SelectSeq(@, Other)]

\* The ledger after the session delete handler (app.py:202-209): the session
\* is removed only when no delete raised.
delete_session(history, cal, event, fail_at) ==
    IF first_failing_delete(cal, event.sub_events, fail_at) = Len(event.sub_events) + 1
    THEN LET Other(e) == e.id # event.id IN
         [history EXCEPT !.created_events = SelectSeq(@, Other)]
    ELSE history

Init ==
    /\ event_history = EmptyHistory
    /\ calendar = <<>>
    /\ next_id = 1
    /\ rerun_pending = FALSE
    /\ last = Obs("init", TRUE, FALSE, {}, {}, <<>>)
    /\ series = NoSeries
    /\ circle = NoCircle

\* The sessions of the ledger.
Sessions == Range(event_history.created_events)

\* The ids whose existence check may fail in a run: the sessions on the calendar.
FailSets == SUBSET {e.id : e \in Sessions}

\* main(), app.py:166-170, in a run where no button is pressed: the
\* reconciliation pass.  A changed ledger is saved and the script reruns.
Rerun(fail) ==
    LET updated_history == verify_events(calendar, fail, event_history) IN
    /\ event_history' = updated_history
    /\ rerun_pending' = (history_after_verify(calendar, fail, event_history) # updated_history)
    /\ last' = Obs("verify", TRUE, FALSE, fail,
                   Sessions \ Range(updated_history.created_events), <<>>)
    /\ UNCHANGED <<calendar, next_id, pure>>

\* A run of main() gets to its buttons (app.py:171 on): no rerun is pending
\* and the reconciliation pass of this run left the ledger as it was.
ReachesButtons ==
    /\ ~rerun_pending
    /\ verify_events(calendar, {}, event_history) = event_history

\* The <<session id, sub-event id>> pairs of the checkboxes (app.py:193-199).
Checkboxes == UNION {{<<e.id, sub.id>> : sub \in Range(e.sub_events)} : e \in Sessions}

\* The id pairs tried for a toggle of something the ledger does not hold:
\* every event id as session id, with itself and with the id after it as
\* sub-event id (a session id that is none, a sub-event of another session,
\* an id the ledger has never seen).
UnknownDraws == {<<i, i>> : i \in Ids} \cup {<<i, (i % MaxEvents) + 1>> : i \in Ids}

\* The checkbox callback (app.py:199, 100-123); the script runs after it.
\* The ids are those of a checkbox, or ids the ledger does not hold (any
\* more), for which the observation is "toggle_unknown".
ToggleCompletion(event_id, sub_event_id, outcome) ==
    LET r == toggle_completion(event_history, calendar, event_id, sub_event_id, outcome) IN
    /\ ~rerun_pending
    /\ \A i \in DOMAIN r.calendar : Len(r.calendar[i].summary) <= MaxPrefix + 1
    /\ event_history' = r.history
    /\ calendar' = r.calendar
    /\ rerun_pending' = TRUE
    /\ last' = Obs(IF <<event_id, sub_event_id>> \in Checkboxes THEN "toggle"
                   ELSE "toggle_unknown",
                   r.ok, r.captured, {}, {}, <<>>)
    /\ UNCHANGED <<next_id, pure>>

\* reset_progress (app.py:92-98)
ResetProgress ==
    /\ ~rerun_pending
    /\ event_history' = reset_progress(event_history)
    /\ rerun_pending' = TRUE
    /\ last' = Obs("reset", TRUE, FALSE, {}, {}, <<>>)
    /\ UNCHANGED <<calendar, next_id, pure>>

\* The session delete button (app.py:201-209).
DeleteSession(event, fail_at) ==
    LET stop == first_failing_delete(calendar, event.sub_events, fail_at)
        deleted == {event.sub_events[j].id : j \in 1..(stop - 1)}
        updated_history == delete_session(event_history, calendar, event, fail_at)
        success == stop = Len(event.sub_events) + 1
    IN
    /\ ReachesButtons
    /\ calendar' = Restrict(calendar, DOMAIN calendar \ deleted)
    /\ event_history' = updated_history
    /\ rerun_pending' = success
    /\ last' = Obs("delete", success, FALSE, {},
                   Sessions \ Range(updated_history.created_events), <<>>)
    /\ UNCHANGED <<next_id, pure>>

\* The delete button of an event listed in the sidebar (app.py:241-247).
DeleteExisting(event_id, raises) ==
    /\ ReachesButtons
    /\ event_id \in DOMAIN calendar
    /\ calendar' = IF raises THEN calendar
                   ELSE Restrict(calendar, DOMAIN calendar \ {event_id})
    /\ rerun_pending' = ~raises
    /\ last' = Obs("delete_existing", ~raises, FALSE, {}, {}, <<>>)
    /\ UNCHANGED <<event_history, next_id, pure>>

\* The "Create Events" button (app.py:286-358).
CreateEvents(subject, description, date, fail_at) ==
    LET sub_events == created_sub_events(subject, next_id, fail_at)
        new_ids == {sub_events[j].id : j \in DOMAIN sub_events}
    IN
    /\ ReachesButtons
    /\ description # ""
    /\ next_id + Len(loop_intervals) - 1 <= MaxEvents
    /\ calendar' = [i \in DOMAIN calendar \cup new_ids |->
                      IF i \in new_ids
                      THEN event_body(subject, description, loop_intervals[i - next_id + 1])
                      ELSE calendar[i]]
    /\ next_id' = next_id + Len(sub_events)
    /\ event_history' = create_events(event_history, subject, description, date,
                                      next_id, fail_at)
    /\ rerun_pending' = TRUE
    /\ last' = Obs("create", fail_at = Len(loop_intervals) + 1, FALSE, {}, {},
                   [j \in DOMAIN sub_events |-> sub_events[j].id])
    /\ UNCHANGED pure

Next ==
    \/ \E fail \in FailSets : Rerun(fail)
    \/ \E p \in Checkboxes : \E outcome \in {"ok", "get_error", "update_error"} :
            ToggleCompletion(p[1], p[2], outcome)
    \/ \E p \in UnknownDraws :
         /\ p \notin Checkboxes
         /\ ToggleCompletion(p[1], p[2], "ok")
    \/ ResetProgress
    \/ \E e \in Sessions : \E fail_at \in 0..Len(e.sub_events) : DeleteSession(e, fail_at)
    \/ \E event_id \in Ids : \E raises \in BOOLEAN : DeleteExisting(event_id, raises)
    \/ \E subject \in FormSubjects : \E description \in Descriptions : \E date \in Dates :
         \E fail_at \in 1..(Len(loop_intervals) + 1) :
            CreateEvents(subject, description, date, fail_at)

Spec == Init /\ [][Next]_vars

(***************************************************************************)
(* The creation loop as a computation of its own: the occurrences of one   *)
(* series, over the whole interval table.  Times are minutes since         *)
(* 2024-08-31 00:00 at +05:30, the offset localize() gives the anchor      *)
(* (app.py:299-301).                                                       *)
(***************************************************************************)

\* datetime.timedelta(days=1) in minutes (app.py:309).
MinutesPerDay == 1440

\* A pytz zone passed as tzinfo to the datetime constructor (app.py:313-314)
\* carries the first offset of the zone, LMT +05:19 for Asia/Colombo: such
\* a datetime is 11 minutes later than the same wall time at +05:30.
LmtShift == 11

\* datetime.datetime(2025, 8, 31, tzinfo=sri_lanka_tz) (app.py:313)
CutoffCheck == 365 * MinutesPerDay + LmtShift

\* datetime.datetime(2025, 8, 31, 23, 59, tzinfo=sri_lanka_tz) (app.py:314)
CutoffStart == 365 * MinutesPerDay + 23 * 60 + 59 + LmtShift

\* The study dates (days after 2024-08-31), times of day (minutes) and
\* durations (minutes, at least 1: app.py:266) entered in the form.
AnchorDays == {-1, 0, 1, 185, 186, 300}
AnchorTimes == {0, 540}
Durations == {1, 60}

\* An occurrence that applies the cutoff to every interval.
occurrence_clamp_all(anchor, duration, interval) ==
    LET event_datetime_interval == anchor + interval * MinutesPerDay IN
    IF event_datetime_interval > CutoffCheck
    THEN [interval |-> interval, start |-> CutoffStart, end |-> CutoffStart + duration]
    ELSE [interval |-> interval, start |-> event_datetime_interval,
          end |-> event_datetime_interval + duration]

\* One pass of the loop body (app.py:309-315): start and end of the event of
\* an interval.
occurrence(anchor, duration, interval) ==
    LET event_datetime_interval == anchor + interval * MinutesPerDay
        event_end_interval == event_datetime_interval + duration
    IN IF interval = 365 /\ event_datetime_interval > CutoffCheck
       THEN [interval |-> interval, start |-> CutoffStart, end |-> CutoffStart + duration]
       ELSE [interval |-> interval, start |-> event_datetime_interval,
             end |-> event_end_interval]

InitSeries ==
    /\ event_history = EmptyHistory
    /\ calendar = <<>>
    /\ next_id = 1
    /\ rerun_pending = FALSE
    /\ last = Obs("init", TRUE, FALSE, {}, {}, <<>>)
    /\ circle = NoCircle
    /\ \E day \in AnchorDays : \E time \in AnchorTimes : \E duration \in Durations :
         series = [anchor |-> day * MinutesPerDay + time, duration |-> duration,
                   occurrences |-> <<>>]

\* The next iteration of the loop over intervals (app.py:306-315).
NextOccurrence ==
    /\ Len(series.occurrences) < Len(intervals)
    /\ series' = [series EXCEPT !.occurrences =
                     Append(@, occurrence(series.anchor, series.duration,
                                          intervals[Len(series.occurrences) + 1]))]
    /\ UNCHANGED <<event_history, calendar, next_id, rerun_pending, last, circle>>

NextSeries == NextOccurrence

SeriesSpec == InitSeries /\ [][NextSeries]_vars

(***************************************************************************)
(* render_progress_circle as a computation of its own, over sessions with  *)
(* any number of sub-events up to MaxEvents.                               *)
(***************************************************************************)

\* The parts appended at app.py:132 and 134.
FilledPart == "<span style=\"color:green;\">&#9679;</span>"
UnfilledPart == "<span style=\"color:lightgrey;\">&#9675;</span>"

\* app.py:126
total_sub_events(event) == Len(event.sub_events)

\* app.py:127
completed_sub_events(event) ==
    Cardinality({j \in DOMAIN event.sub_events : event.sub_events[j].completed})

\* A test that is off by one.
is_filled_off_by_one(i, completed) == i <= completed

\* i < completed_sub_events (app.py:131)
is_filled(i, completed) == i < completed

\* The sessions handed to render_progress_circle.
RenderedEvents ==
    UNION {{[sub_events |-> [j \in 1..n |-> [id |-> j, name |-> "review",
                                              completed |-> flags[j]]]] :
               flags \in [1..n -> BOOLEAN]} : n \in 0..MaxEvents}

InitRender ==
    /\ event_history = EmptyHistory
    /\ calendar = <<>>
    /\ next_id = 1
    /\ rerun_pending = FALSE
    /\ last = Obs("init", TRUE, FALSE, {}, {}, <<>>)
    /\ series = NoSeries
    /\ \E event \in RenderedEvents : circle = [event |-> event, circle_parts |-> <<>>]

\* The next iteration of the loop over range(total_sub_events)
\* (app.py:130-134); i is the number of parts appended so far.
AppendPart ==
    LET i == Len(circle.circle_parts) IN
    /\ i < total_sub_events(circle.event)
    /\ circle' = [circle EXCEPT !.circle_parts =
                     Append(@, IF is_filled(i, completed_sub_events(circle.event))
                               THEN FilledPart ELSE UnfilledPart)]
    /\ UNCHANGED <<event_history, calendar, next_id, rerun_pending, last, series>>

NextRender == AppendPart

RenderSpec == InitRender /\ [][NextRender]_vars

(***************************************************************************)
(* Properties.                                                             *)
(***************************************************************************)

\* The sub-events of a session, the sub-events of a ledger, and their ids.
SubEvents(e) == Range(e.sub_events)
AllSubEvents(history) == UNION {SubEvents(e) : e \in Range(history.created_events)}
SubIds(history) == {s.id : s \in AllSubEvents(history)}

\* The remote event carries the completed marker: prefix and done colour.
Marked(calendar_event) ==
    /\ Len(calendar_event.summary) > 1
    /\ calendar_event.summary[1] = CompletedPrefix
    /\ color_of(calendar_event) = DoneColor

\* The outcomes of the remote calls of one toggle.
Outcomes == {"ok", "get_error", "update_error"}

\* C1: after a reconciliation pass every sub-event id held in the ledger's
\* created sessions is the id of an event on the calendar.
C1_NoDanglingSubEvent ==
    last.op = "verify" =>
        \A e \in Sessions : \A s \in SubEvents(e) : s.id \in DOMAIN calendar

\* C2: a reconciliation pass keeps every session whose existence check failed
\* with an error although its event is on the calendar.
C2_FailedCheckRetains ==
    last.op = "verify" =>
        \A e \in last.removed : ~(e.id \in last.failed /\ e.id \in DOMAIN calendar)

\* C3: a reconciliation pass drops a session only when none of its sub-events
\* is on the calendar (stated for the passes in which no existence check
\* fails with an error).
C3_DroppedOnlyWhenAllGone ==
    (last.op = "verify" /\ last.failed = {}) =>
        \A e \in last.removed : \A s \in SubEvents(e) : s.id \notin DOMAIN calendar

\* C4: reconciliation is idempotent: with the existence answers fixed, a
\* second pass over the result of a pass returns that result.
C4_ReconcileIdempotent ==
    \A fail \in FailSets :
        LET once == verify_events(calendar, fail, event_history) IN
        verify_events(calendar, fail, once) = once

\* C4 witness: a pass has dropped a session and kept another one.
C4_Witness ==
    /\ last.op = "verify"
    /\ last.removed # {}
    /\ Len(event_history.created_events) >= 1

\* The sub-event with the given id in a ledger.
SubEventOf(history, id) == CHOOSE s \in AllSubEvents(history) : s.id = id

\* The colour a sub-event restores: the captured one, or the one its first
\* toggle will capture.
OriginalColor(sub_event) ==
    IF "originalColorId" \in DOMAIN sub_event THEN sub_event.originalColorId
    ELSE color_of(calendar[sub_event.id])

\* C5: two toggles in a row of a sub-event give back its completed flag and
\* leave its remote event with the original colour.
C5_ToggleRoundTrip ==
    \A e \in Sessions : \A s \in SubEvents(e) : \A o1 \in Outcomes : \A o2 \in Outcomes :
        LET r1 == toggle_completion(event_history, calendar, e.id, s.id, o1)
            r2 == toggle_completion(r1.history, r1.calendar, e.id, s.id, o2)
        IN /\ SubEventOf(r2.history, s.id).completed = s.completed
           /\ s.id \in DOMAIN calendar =>
                 color_of(r2.calendar[s.id]) = OriginalColor(s)

\* C6: a sub-event is completed in the ledger exactly when its remote event
\* carries the completed marker (every state of the model is a state in
\* which the last operation has finished).
C6_Lockstep ==
    \A s \in AllSubEvents(event_history) :
        s.id \in DOMAIN calendar => (s.completed <=> Marked(calendar[s.id]))

\* The captured colours of a ledger, as <<sub-event id, originalColorId>>.
Captured(history) ==
    {<<s.id, s.originalColorId>> :
        s \in {t \in AllSubEvents(history) : "originalColorId" \in DOMAIN t}}

\* C7: once a sub-event has an originalColorId, no step changes it while the
\* sub-event is in the ledger.
C7_OriginalColorFrozen ==
    [][\A p \in Captured(event_history) :
          p[1] \in SubIds(event_history') => p \in Captured(event_history')]_vars

\* C7 witness: a toggle has reached the calendar for a sub-event whose
\* originalColorId was already set.
C7_Witness ==
    /\ last.op = "toggle"
    /\ last.ok
    /\ ~last.captured

\* The ids of the sub-events of a session, in order.
SubIdSeq(e) == [j \in DOMAIN e.sub_events |-> e.sub_events[j].id]

\* C8 as stated: after a creation that failed behind at least one successful
\* insert, the ledger has a session whose sub-events are the created events.
C8_PartialSessionRecorded ==
    (last.op = "create" /\ ~last.ok /\ Len(last.created) >= 1) =>
        \E e \in Sessions : SubIdSeq(e) = last.created

\* C8 amended: a creation that fails leaves the ledger as it was; the events
\* it inserted are on the calendar and no session holds them.
C8_FailedCreateLeavesLedger ==
    [][(last'.op = "create" /\ ~last'.ok) =>
          /\ event_history' = event_history
          /\ \A i \in Range(last'.created) :
                i \in DOMAIN calendar' /\ i \notin SubIds(event_history')]_vars

\* C8 witness: a creation has failed behind at least one successful insert.
C8_Witness ==
    /\ last.op = "create"
    /\ ~last.ok
    /\ Len(last.created) >= 1

\* C9 as stated: the id of a session is the id of its first sub-event.
C9_IdIsFirstSubEvent ==
    \A e \in Sessions : e.id = e.sub_events[1].id

\* C9 amended: the id of a session is the id of its last sub-event, the last
\* event inserted for it.
C9_IdIsLastSubEvent ==
    \A e \in Sessions :
        /\ Len(e.sub_events) = Len(loop_intervals)
        /\ e.id = e.sub_events[Len(e.sub_events)].id

\* C9 witness: a session with several sub-events is in the ledger.
C9_Witness ==
    \E e \in Sessions : Len(e.sub_events) >= 2

\* C10: when the delete button has removed a session from the ledger, none
\* of the session's sub-events is on the calendar.
C10_DeleteAfterRemoteDeletes ==
    last.op = "delete" =>
        \A e \in last.removed : \A s \in SubEvents(e) : s.id \notin DOMAIN calendar

\* C10 witness: the delete button has removed a session.
C10_Witness ==
    /\ last.op = "delete"
    /\ last.removed # {}

\* C11 read on one retry: when the delete button has failed behind some
\* remote deletes, pressing it again while the calendar answers every call it
\* can answer removes the session from the ledger.  (The retry leaves the
\* ledger and the calendar as they are, so further retries do the same.)
C11_RetriedDeleteRemoves ==
    (last.op = "delete" /\ ~last.ok) =>
        \A e \in Sessions :
            (\E sub \in Range(e.sub_events) : sub.id \notin DOMAIN calendar)
            => e \notin Range(delete_session(event_history, calendar, e, 0).created_events)

\* C12: a toggle with ids the ledger does not hold changes neither the
\* ledger nor any remote event.
C12_UnknownToggleIsNoOp ==
    [][last'.op = "toggle_unknown" =>
          event_history' = event_history /\ calendar' = calendar]_vars

\* C12 witness: such a toggle has run while the ledger holds a session.
C12_Witness ==
    /\ last.op = "toggle_unknown"
    /\ Sessions # {}

\* C13: the sessions of the ledger have pairwise distinct ids.
C13_DistinctSessionIds ==
    \A i \in DOMAIN event_history.created_events :
        \A j \in DOMAIN event_history.created_events :
            event_history.created_events[i].id = event_history.created_events[j].id => i = j

\* C13 witness: the ledger holds two sessions.
C13_Witness ==
    Len(event_history.created_events) >= 2

PrefixCount(summary) ==
    LET IsPrefix(t) == t = CompletedPrefix IN Len(SelectSeq(summary, IsPrefix))

\* C17: the summary of a remote event carries the prefix at most once.
C17_PrefixAtMostOnce ==
    \A i \in DOMAIN calendar : PrefixCount(calendar[i].summary) <= 1

\* The subject a sub-event was created for, from its name (app.py:308, 333).
SubjectOf(sub_event) ==
    CHOOSE subject \in Range(subjects) :
        \E i \in DOMAIN intervals : sub_event.name = event_title(subject, intervals[i])

\* C18: a captured originalColorId is the colour the event was created with,
\* never the done colour.
C18_CapturedIsCreationColor ==
    \A p \in Captured(event_history) :
        /\ p[2] # DoneColor
        /\ p[2] = get_color_id(SubjectOf(SubEventOf(event_history, p[1])))

\* C18 witness: the colour has just been captured for a sub-event whose
\* earlier toggle had failed, so that the capture happens on un-completing.
C18_Witness ==
    /\ last.op = "toggle"
    /\ last.captured
    /\ Cardinality(Captured(event_history)) = 1
    /\ \A p \in Captured(event_history) : ~SubEventOf(event_history, p[1]).completed

\* The start the loop computes before the cutoff is looked at.
PlainStart(interval) == series.anchor + interval * MinutesPerDay

\* C14 as stated: every occurrence ends a duration after its start and
\* starts at anchor + interval days, or at the cap when that is after the cap.
C14_ClampedAtCap ==
    \A k \in DOMAIN series.occurrences :
        LET o == series.occurrences[k] IN
        /\ o.end = o.start + series.duration
        /\ o.start = IF PlainStart(o.interval) > CutoffStart THEN CutoffStart
                     ELSE PlainStart(o.interval)

\* C14 amended: every occurrence ends a duration after its start; the
\* occurrences of the intervals before the last start at anchor + interval
\* days whatever the cutoff; the 365-day one starts there unless that is
\* after 2025-08-31 00:00, in which case it starts at 2025-08-31 23:59, so
\* that it never starts after 2025-08-31 23:59.
C14_OnlyLastIsMoved ==
    \A k \in DOMAIN series.occurrences :
        LET o == series.occurrences[k] IN
        /\ o.interval = intervals[k]
        /\ o.end - o.start = series.duration
        /\ k < Len(intervals) => o.start = PlainStart(intervals[k])
        /\ k = Len(intervals) =>
              /\ o.start <= CutoffStart
              /\ PlainStart(intervals[k]) <= CutoffCheck => o.start = PlainStart(intervals[k])
              /\ PlainStart(intervals[k]) > CutoffCheck => o.start = CutoffStart

\* C14 witness: the whole series is computed, its last occurrence was moved
\* to the cutoff and an earlier one starts after the cutoff.
C14_Witness ==
    /\ Len(series.occurrences) = Len(intervals)
    /\ series.occurrences[Len(intervals)].start = CutoffStart
    /\ \E k \in 1..(Len(intervals) - 1) : series.occurrences[k].start > CutoffStart

FilledCount(circle_parts) ==
    Cardinality({k \in DOMAIN circle_parts : circle_parts[k] = FilledPart})

\* C19: a finished circle has one part per sub-event, as many of them filled
\* as there are completed sub-events.
C19_CircleCounts ==
    /\ Len(circle.circle_parts) <= total_sub_events(circle.event)
    /\ Len(circle.circle_parts) = total_sub_events(circle.event) =>
          /\ \A k \in DOMAIN circle.circle_parts :
                circle.circle_parts[k] \in {FilledPart, UnfilledPart}
          /\ FilledCount(circle.circle_parts) = completed_sub_events(circle.event)

\* C19 witness: the circle of a session with three sub-events, two of them
\* completed, is finished.
C19_Witness ==
    /\ total_sub_events(circle.event) = 3
    /\ completed_sub_events(circle.event) = 2
    /\ Len(circle.circle_parts) = 3
====
